---- MODULE Spec2Model ----
(***************************************************************************)
(* Model of src/app.py, the NC Health Insights Dashboard.                  *)
(*                                                                         *)
(* The module-level load (lines 127-187) is modelled stage by stage; the   *)
(* two Dash callbacks (render_tab_content, update_visualizations) are the  *)
(* events served afterwards.  A data frame is a record                     *)
(*     [n |-> row count, crs |-> reference, index |-> row labels,          *)
(*      cols |-> column name -> cells]                                      *)
(* and a cell is a record [kind, num, str] (number, text, null, NaN, ...). *)
(***************************************************************************)
EXTENDS Integers, Sequences, FiniteSets, TLC

\* ---------------------------------------------------------------- bounds
MaxRows == 3        \* rows of the files that vary the indicator values
MaxKeyRows == 4     \* rows of the files that vary the County values
MaxK == 3           \* indicator values are 10, 20, ..., 10 * MaxK

\* ------------------------------------------------------- program constants
top_n == 10
bottom_n == 10

\* ------------------------------------------------------------------ cells
Num(v) == [kind |-> "num", num |-> v, str |-> ""]
Str(s) == [kind |-> "str", num |-> 0, str |-> s]
None == [kind |-> "null", num |-> 0, str |-> ""]
NaN == [kind |-> "nan", num |-> 0, str |-> ""]
Bytes == [kind |-> "bytes", num |-> 0, str |-> ""]
Geom(s) == [kind |-> "geom", num |-> 0, str |-> s]

\* pandas isnull(): None and NaN are both "missing"
isnull(c) == c.kind \in {"null", "nan"}

\* ----------------------------------------------------- Indicator Catalog
\* Two of the seven categories, three of their indicators.
health_categories ==
    [c \in {"Economic Stability", "Behavioral Factors"} |->
        IF c = "Economic Stability"
        THEN <<"Median Household Income", "% Unemployed">>
        ELSE <<"% Adults with Obesity">>]

CatalogIndicators ==
    UNION {{health_categories[c][i] : i \in 1..Len(health_categories[c])} :
           c \in DOMAIN health_categories}

\* the one catalog indicator the model's files carry as a column
IndCol == "% Unemployed"

\* ----------------------------------------------------------------- frames
\* gpd.GeoDataFrame(): no rows, no columns
EmptyFrame == [n |-> 0, crs |-> "none", index |-> <<>>, cols |-> <<>>]

columns(frame) == DOMAIN frame.cols

\* DataFrame.empty: True when any axis has length 0
empty(frame) == frame.n = 0 \/ columns(frame) = {}

\* frame[name] = values (adds the column or replaces it)
SetColumn(frame, name, values) ==
    [frame EXCEPT !.cols = [c \in columns(frame) \cup {name} |->
                               IF c = name THEN values ELSE frame.cols[c]]]

Range(s) == {s[i] : i \in 1..Len(s)}

\* ------------------------------------------------------- files on the disk
IndValues == {10 * k : k \in 1..MaxK}

\* what an attribute of the file may hold in the indicator column
RawCells == {Num(v) : v \in IndValues} \cup {None, Str("n/a"), Str("20")}

CountyCells == {Str("Wake"), Str("Dare"), None}

UniqueNames == <<"Wake", "Dare", "Polk", "Ashe", "Hoke", "Pitt", "Nash",
                 "Lee", "Bertie", "Burke", "Clay", "Davie", "Gates">>

SeqsUpTo(S, lo, hi) == UNION {[1..m -> S] : m \in lo..hi}

MkFrame(crs, county, ind) ==
    [n |-> Len(ind), crs |-> crs, index |-> [i \in 1..Len(ind) |-> i - 1],
     cols |-> [c \in {"County", "geometry", IndCol} |->
                 IF c = "County" THEN county
                 ELSE IF c = IndCol THEN ind
                 ELSE [i \in 1..Len(ind) |-> Geom("raw")]]]

DropColumn(frame, name) ==
    [frame EXCEPT !.cols = [c \in columns(frame) \ {name} |-> frame.cols[c]]]

WithBlob(frame) ==
    SetColumn(frame, "Photo", [i \in 1..frame.n |-> Bytes])

\* County varies (duplicates, nulls), every indicator value is 10
KeyFrames ==
    {MkFrame("EPSG:4326", cs, [i \in 1..Len(cs) |-> Num(10)]) :
        cs \in SeqsUpTo(CountyCells, 1, MaxKeyRows)}

\* a file with no feature: no attribute column either
ZeroRowFrame ==
    [n |-> 0, crs |-> "EPSG:4326", index |-> <<>>,
     cols |-> [c \in {"geometry"} |-> <<>>]]

\* County is unique, the indicator values vary
ValueFrames ==
    {MkFrame("EPSG:4326", [i \in 1..Len(vs) |-> Str(UniqueNames[i])], vs) :
        vs \in SeqsUpTo(RawCells, 1, MaxRows)}

\* more rows than top_n, County unique, two indicator values
LongRows == top_n + 1
LongFrames ==
    {MkFrame("EPSG:4326", [i \in 1..LongRows |-> Str(UniqueNames[i])], vs) :
        vs \in [1..LongRows -> {Num(10), Num(20)}]}

BaseFrames == KeyFrames \cup ValueFrames

Frames ==
    BaseFrames
    \cup {DropColumn(f, "County") : f \in ValueFrames}
    \cup {DropColumn(f, IndCol) : f \in KeyFrames}
    \cup {WithBlob(f) : f \in BaseFrames}
    \cup {[f EXCEPT !.crs = "EPSG:32119"] : f \in BaseFrames}
    \cup LongFrames
    \cup {ZeroRowFrame}

Files ==
    {[status |-> "ok", frame |-> f] : f \in Frames}
    \cup {[status |-> s, frame |-> EmptyFrame] : s \in {"missing", "corrupt"}}

VARIABLES pc, disk, merged_nc, merged_geojson, featureidkey, called, returned, locals
vars == <<pc, disk, merged_nc, merged_geojson, featureidkey, called, returned, locals>>


\* ------------------------------------------------------ library operations
\* gpd.read_file: the frame of a readable file, an exception otherwise
read_file(d) ==
    IF d.status = "ok" THEN [raised |-> FALSE, frame |-> d.frame]
    ELSE [raised |-> TRUE, frame |-> EmptyFrame]

to_crs(frame) == [frame EXCEPT !.crs = "EPSG:4326"]

simplify(geometry) == [i \in 1..Len(geometry) |-> Geom("simplified")]

\* the empty dict {}
EmptyDict == <<>>

HasBytes(frame) ==
    \E c \in columns(frame) : \E i \in 1..frame.n : frame.cols[c][i].kind = "bytes"

\* GeoDataFrame.to_json + json.loads: one feature per row, its properties
\* are the row's non-geometry columns; a value json cannot encode raises
to_json(frame) ==
    IF HasBytes(frame) THEN [raised |-> TRUE, doc |-> EmptyDict]
    ELSE [raised |-> FALSE,
          doc |-> [type |-> "FeatureCollection",
                   features |-> [i \in 1..frame.n |->
                       [id |-> ToString(frame.index[i]),
                        properties |-> [c \in columns(frame) \ {"geometry"} |->
                                           frame.cols[c][i]]]]]]

\* Series.nunique(): distinct values, missing ones not counted
nunique(col) == Cardinality({c \in Range(col) : ~isnull(c)})

\* astype(str) of one cell
astype_str(c) ==
    CASE c.kind = "str" -> c.str
      [] c.kind = "num" -> ToString(c.num)
      [] c.kind = "null" -> "None"
      [] OTHER -> "nan"

\* pd.to_numeric(errors='coerce') of one cell: numbers stay, numeric text is
\* parsed, anything else becomes NaN
ParseRange == 0..(10 * MaxK + 10)
to_numeric(c) ==
    CASE c.kind = "num" -> c
      [] c.kind = "str" ->
            IF \E v \in ParseRange : ToString(v) = c.str
            THEN Num(CHOOSE v \in ParseRange : ToString(v) = c.str)
            ELSE NaN
      [] OTHER -> NaN

\* ------------------------------------------------------ Region Key Resolver
\* the row index left out of the synthesized identifier
County_ID_NoIndex(frame) ==
    [i \in 1..frame.n |-> Str(astype_str(frame.cols["County"][i]) \o "_")]

\* rows numbered from 1 in the synthesized identifier
County_ID_OneBased(frame) ==
    [i \in 1..frame.n |->
        Str(astype_str(frame.cols["County"][i]) \o "_" \o ToString(frame.index[i] + 1))]

\* line 170: County.astype(str) + "_" + index.astype(str)
County_ID(frame) ==
    [i \in 1..frame.n |->
        Str(astype_str(frame.cols["County"][i]) \o "_" \o ToString(frame.index[i]))]

\* line 169
NeedsCountyID(frame) == nunique(frame.cols["County"]) # frame.n

\* ------------------------------------------------------------------ startup
Init ==
    /\ pc = "read"
    /\ disk \in Files
    /\ merged_nc = EmptyFrame
    /\ merged_geojson = EmptyDict
    /\ featureidkey = "properties.County"
    /\ called = [fn |-> "none", arg |-> "", fails |-> {}]
    /\ returned = <<>>
    /\ locals = <<>>

Idle == UNCHANGED <<called, returned, locals>>

\* only FileNotFoundError caught: any other read error ends the process
ReadOutcome_Uncaught(d, current) ==
    IF d.status = "corrupt" THEN [pc |-> "crashed", frame |-> current]
    ELSE [pc |-> "check", frame |-> IF d.status = "ok" THEN d.frame ELSE current]

\* lines 132-139: both except clauses print and go on, merged_nc stays as it was
ReadOutcome(d, current) ==
    LET r == read_file(d)
    IN [pc |-> "check", frame |-> IF r.raised THEN current ELSE r.frame]

ReadFile ==
    /\ pc = "read"
    /\ merged_nc' = ReadOutcome(disk, merged_nc).frame
    /\ pc' = ReadOutcome(disk, merged_nc).pc
    /\ UNCHANGED <<disk, merged_geojson, featureidkey>>
    /\ Idle

\* lines 186-187
EmptyBranch ==
    /\ pc = "check"
    /\ empty(merged_nc)
    /\ pc' = "serving"
    /\ UNCHANGED <<disk, merged_nc, merged_geojson, featureidkey>>
    /\ Idle

\* lines 142-146: to_crs is not inside a try
EnsureCRS ==
    /\ pc = "check"
    /\ ~empty(merged_nc)
    /\ IF merged_nc.crs # "EPSG:4326"
       THEN \E ok \in BOOLEAN :
              IF ok THEN /\ merged_nc' = to_crs(merged_nc)
                         /\ pc' = "simplify"
              ELSE /\ pc' = "crashed"
                   /\ UNCHANGED merged_nc
       ELSE /\ pc' = "simplify"
            /\ UNCHANGED merged_nc
    /\ UNCHANGED <<disk, merged_geojson, featureidkey>>
    /\ Idle

\* lines 149-153
SimplifyGeometry ==
    /\ pc = "simplify"
    /\ \E ok \in BOOLEAN :
         merged_nc' = IF ok
                      THEN SetColumn(merged_nc, "geometry",
                                     simplify(merged_nc.cols["geometry"]))
                      ELSE merged_nc
    /\ pc' = "tojson"
    /\ UNCHANGED <<disk, merged_geojson, featureidkey>>
    /\ Idle

\* lines 156-161
ConvertToGeoJSON ==
    /\ pc = "tojson"
    /\ LET r == to_json(merged_nc) IN
         merged_geojson' = IF r.raised THEN EmptyDict ELSE r.doc
    /\ pc' = "resolve"
    /\ UNCHANGED <<disk, merged_nc, featureidkey>>
    /\ Idle

\* lines 164-178: the second to_json (line 172) is not inside a try
ResolveKey ==
    /\ pc = "resolve"
    /\ IF "County" \in columns(merged_nc)
       THEN IF NeedsCountyID(merged_nc)
            THEN LET withId == SetColumn(merged_nc, "County_ID", County_ID(merged_nc))
                     r == to_json(withId)
                 IN /\ merged_nc' = withId
                    /\ featureidkey' = "properties.County_ID"
                    /\ IF r.raised
                       THEN pc' = "crashed" /\ UNCHANGED merged_geojson
                       ELSE pc' = "coerce" /\ merged_geojson' = r.doc
            ELSE /\ pc' = "coerce"
                 /\ UNCHANGED <<merged_nc, merged_geojson, featureidkey>>
       ELSE /\ featureidkey' = "properties.County"
            /\ pc' = "coerce"
            /\ UNCHANGED <<merged_nc, merged_geojson>>
    /\ UNCHANGED disk
    /\ Idle

\* lines 181-185
CoerceColumn(frame, var) ==
    IF var \in columns(frame)
    THEN SetColumn(frame, var, [i \in 1..frame.n |-> to_numeric(frame.cols[var][i])])
    ELSE frame

RECURSIVE CoerceAll(_, _)
CoerceAll(frame, todo) ==
    IF todo = {} THEN frame
    ELSE LET var == CHOOSE v \in todo : TRUE
         IN CoerceAll(CoerceColumn(frame, var), todo \ {var})

CoerceNumeric ==
    /\ pc = "coerce"
    /\ merged_nc' = CoerceAll(merged_nc, CatalogIndicators)
    /\ pc' = "serving"
    /\ UNCHANGED <<disk, merged_geojson, featureidkey>>
    /\ Idle

\* ----------------------------------------------------- pandas on a column
NonNull(col) == {i \in 1..Len(col) : ~isnull(col[i])}
Nulls(col) == {i \in 1..Len(col) : isnull(col[i])}

\* equal values in reverse load order (keep='last')
Before_KeepLast(col, descending, p, q) ==
    IF col[p].num = col[q].num THEN p >= q
    ELSE IF descending THEN col[p].num > col[q].num
    ELSE col[p].num < col[q].num

\* position p comes before position q: by value in the asked direction,
\* equal values in load order
Before(col, descending, p, q) ==
    IF col[p].num = col[q].num THEN p <= q
    ELSE IF descending THEN col[p].num > col[q].num
    ELSE col[p].num < col[q].num

RECURSIVE SortPositions(_, _, _)
SortPositions(col, descending, S) ==
    IF S = {} THEN <<>>
    ELSE LET p == CHOOSE x \in S : \A y \in S : Before(col, descending, x, y)
         IN <<p>> \o SortPositions(col, descending, S \ {p})

RECURSIVE Ascending(_)
Ascending(S) ==
    IF S = {} THEN <<>>
    ELSE LET p == CHOOSE x \in S : \A y \in S : x <= y
         IN <<p>> \o Ascending(S \ {p})

FirstN(s, n) == SubSeq(s, 1, IF n < Len(s) THEN n ELSE Len(s))

\* the lower middle value taken for the median of an even count
median_LowerMiddle(col) ==
    LET s == SortPositions(col, FALSE, NonNull(col))
        m == Len(s)
    IN IF m = 0 THEN NaN ELSE col[s[(m + 1) \div 2]]

\* Series.median(): missing values skipped; the middle value, or the mean of
\* the two middle ones (exact here: every value is a multiple of 10)
median(col) ==
    LET s == SortPositions(col, FALSE, NonNull(col))
        m == Len(s)
    IN IF m = 0 THEN NaN
       ELSE IF m % 2 = 1 THEN col[s[(m + 1) \div 2]]
       ELSE Num((col[s[m \div 2]].num + col[s[m \div 2 + 1]].num) \div 2)

fillna(col, value) == [i \in 1..Len(col) |-> IF isnull(col[i]) THEN value ELSE col[i]]

\* Series.min() / Series.max(): missing values skipped, NaN when all missing
series_min(col) ==
    IF NonNull(col) = {} THEN NaN ELSE col[SortPositions(col, FALSE, NonNull(col))[1]]
series_max(col) ==
    IF NonNull(col) = {} THEN NaN ELSE col[SortPositions(col, TRUE, NonNull(col))[1]]

\* DataFrame.take: the rows at the given positions, labels kept
take(frame, positions) ==
    [n |-> Len(positions), crs |-> frame.crs,
     index |-> [k \in 1..Len(positions) |-> frame.index[positions[k]]],
     cols |-> [c \in columns(frame) |->
                 [k \in 1..Len(positions) |-> frame.cols[c][positions[k]]]]]

\* DataFrame.nlargest / nsmallest(n, column), keep='first': the n best rows
\* in order, ties in load order, missing values after the others
SelectN(descending, n, frame, column) ==
    LET col == frame.cols[column]
        dropped == SortPositions(col, descending, NonNull(col))
        nan_index == Ascending(Nulls(col))
    IN IF n >= frame.n
       THEN take(frame, FirstN(dropped \o nan_index, n))
       ELSE take(frame, FirstN(FirstN(dropped, n) \o nan_index, n))

nlargest(n, frame, column) == SelectN(TRUE, n, frame, column)
nsmallest(n, frame, column) == SelectN(FALSE, n, frame, column)

\* ------------------------------------------------------------------ figures
empty_figure == [kind |-> "NoSelection", data |-> <<>>]
error_figure(selected_indicator) ==
    [kind |-> "NotFound", data |-> <<>>,
     title |-> "Indicator '" \o selected_indicator \o "' not found in the data."]
map_error_figure == [kind |-> "MapError", data |-> <<>>]
top_error_figure == [kind |-> "TopError", data |-> <<>>]
bottom_error_figure == [kind |-> "BottomError", data |-> <<>>]

\* plotly express raises ValueError when a named column is not in the frame
PxColumnsOK(frame, names) == names \subseteq columns(frame)

\* the name looked up in the catalog as well as in the table
InColumns_OrCatalog(selected_indicator, frame) ==
    selected_indicator \in columns(frame) \cup CatalogIndicators

\* line 388
InColumns(selected_indicator, frame) == selected_indicator \in columns(frame)

\* lines 409-412: the frame the fill is applied to (a copy)
merged_nc_clean(frame, selected_indicator) ==
    LET col == frame.cols[selected_indicator]
    IN IF Nulls(col) # {}
       THEN SetColumn(frame, selected_indicator, fillna(col, median(col)))
       ELSE frame

\* the fill applied to the module-level frame itself (no copy)
FrameAfterQuery_InPlace(frame, selected_indicator) ==
    merged_nc_clean(frame, selected_indicator)

\* line 409: the module-level frame after the handler; the fill went to a copy
FrameAfterQuery(frame, selected_indicator) == frame

\* lines 419, 463, 519
LocationsColumn(frame) == IF "County" \in columns(frame) THEN "County" ELSE "County_ID"

\* line 422
range_color(clean, top, selected_indicator) ==
    <<series_min(clean.cols[selected_indicator]), series_max(clean.cols[selected_indicator])>>

\* lines 415-455
map_fig(clean, top, geojson, fik, selected_indicator) ==
    LET loc == LocationsColumn(clean)
    IN IF PxColumnsOK(clean, {loc, selected_indicator, "County"})
       THEN [kind |-> "Choropleth",
             locations |-> loc,
             ids |-> clean.cols[loc],
             z |-> clean.cols[selected_indicator],
             range_color |-> range_color(clean, top, selected_indicator),
             geojson |-> geojson,
             featureidkey |-> fik]
       ELSE map_error_figure

\* lines 461-511 and 517-567
bar_fig(rows, selected_indicator, title, error) ==
    LET x == LocationsColumn(rows)
    IN IF PxColumnsOK(rows, {x, selected_indicator, "County"})
       THEN [kind |-> "Bar", title |-> title, x |-> x,
             labels |-> rows.cols[x],
             y |-> rows.cols[selected_indicator],
             tickvals |-> rows.cols["County"]]
       ELSE error

NoLocals == <<>>
Raised(e) == <<[kind |-> "Raised", error |-> e]>>

\* lines 364-569: what the callback returns and the frames it computed
Visualize(frame, geojson, fik, selected_indicator) ==
    IF selected_indicator = ""
    THEN [returned |-> <<empty_figure, empty_figure, empty_figure>>,
          locals |-> NoLocals]
    ELSE IF ~InColumns(selected_indicator, frame)
    THEN [returned |-> <<error_figure(selected_indicator),
                         error_figure(selected_indicator),
                         error_figure(selected_indicator)>>,
          locals |-> NoLocals]
    ELSE IF selected_indicator \notin columns(frame)
    THEN [returned |-> Raised("KeyError"), locals |-> NoLocals]
    ELSE LET clean == merged_nc_clean(frame, selected_indicator)
             top == nlargest(top_n, clean, selected_indicator)
             bottom == nsmallest(bottom_n, clean, selected_indicator)
         IN [returned |->
                <<map_fig(clean, top, geojson, fik, selected_indicator),
                  bar_fig(top, selected_indicator, "Top", top_error_figure),
                  bar_fig(bottom, selected_indicator, "Bottom", bottom_error_figure)>>,
             locals |-> [merged_nc_clean |-> clean,
                         merged_nc_top |-> top,
                         merged_nc_bottom |-> bottom]]

\* ------------------------------------------------------------------- events
\* "" stands for no selection (None or the empty string)
Selections == {"", IndCol, "Median Household Income", "Bogus Indicator"}
Tabs == {"Readme"} \cup DOMAIN health_categories

\* lines 261-355
tab_content(selected_tab) ==
    IF selected_tab = "Readme" THEN [kind |-> "Readme"]
    ELSE [kind |-> "Category",
          options |-> health_categories[selected_tab],
          value |-> IF health_categories[selected_tab] # <<>>
                    THEN health_categories[selected_tab][1] ELSE ""]

render_tab_content ==
    /\ pc = "serving"
    /\ \E selected_tab \in Tabs :
         /\ called' = [fn |-> "render_tab_content", arg |-> selected_tab, fails |-> {}]
         /\ returned' = <<tab_content(selected_tab)>>
    /\ locals' = NoLocals
    /\ UNCHANGED <<pc, disk, merged_nc, merged_geojson, featureidkey>>

\* the three try blocks (lines 415, 458, 514); inside one, plotly may raise
Outputs == {"map", "top", "bottom"}

\* one try block around the three builds: any exception replaces them all
WithFailures_SingleTry(r, fails) ==
    IF r.locals = NoLocals \/ fails = {} THEN r
    ELSE [r EXCEPT !.returned = <<map_error_figure, top_error_figure, bottom_error_figure>>]

\* lines 438-455, 494-511, 550-567: an exception raised inside a try block
\* replaces the figure of that block by its error figure, the other blocks
\* still run
WithFailures(r, fails) ==
    IF r.locals = NoLocals THEN r
    ELSE [r EXCEPT !.returned =
            <<IF "map" \in fails THEN map_error_figure ELSE r.returned[1],
              IF "top" \in fails THEN top_error_figure ELSE r.returned[2],
              IF "bottom" \in fails THEN bottom_error_figure ELSE r.returned[3]>>]

\* fails: the try blocks in which the plotting library raises during this
\* call; none is entered on the early returns
update_visualizations ==
    /\ pc = "serving"
    /\ \E selected_indicator \in Selections :
       \E built \in {Visualize(merged_nc, merged_geojson, featureidkey, selected_indicator)} :
       \E fails \in (IF built.locals = NoLocals THEN {{}} ELSE SUBSET Outputs) :
       \E r \in {WithFailures(built, fails)} :
            /\ called' = [fn |-> "update_visualizations", arg |-> selected_indicator,
                          fails |-> fails]
            /\ returned' = r.returned
            /\ locals' = r.locals
            /\ merged_nc' = IF InColumns(selected_indicator, merged_nc)
                               /\ selected_indicator \in columns(merged_nc)
                            THEN FrameAfterQuery(merged_nc, selected_indicator)
                            ELSE merged_nc
    /\ UNCHANGED <<pc, disk, merged_geojson, featureidkey>>

Next ==
    \/ ReadFile
    \/ EmptyBranch
    \/ EnsureCRS
    \/ SimplifyGeometry
    \/ ConvertToGeoJSON
    \/ ResolveKey
    \/ CoerceNumeric
    \/ render_tab_content
    \/ update_visualizations

Spec == Init /\ [][Next]_vars

\* ------------------------------------------------------------------ claims
Serving == pc = "serving"
Queried ==
    /\ Serving
    /\ called.fn = "update_visualizations"
Recognized ==
    /\ Queried
    /\ called.arg # ""
    /\ called.arg \in columns(merged_nc)
Stored == merged_nc.cols[called.arg]

\* the column the boundary features are keyed by
IdColumn == IF featureidkey = "properties.County_ID" THEN "County_ID" ELSE "County"
HasDuplicates(col) == \E i, j \in 1..Len(col) : i # j /\ col[i] = col[j]

\* C1: once the key resolution stage has run on a table that has a County
\* column, the identifier column (County, or County_ID when it was
\* synthesized) holds no value twice.
C1_UniqueIdentifier ==
    (pc \in {"coerce", "serving"} /\ "County" \in columns(merged_nc)) =>
        /\ IdColumn \in columns(merged_nc)
        /\ ~HasDuplicates(merged_nc.cols[IdColumn])

C1_Witness ==
    /\ Serving
    /\ "County" \in columns(merged_nc)
    /\ HasDuplicates(merged_nc.cols["County"])
    /\ featureidkey = "properties.County_ID"
    /\ merged_nc.n = MaxKeyRows

\* C2: whenever a map or a bar chart is built, the column it locates regions
\* by is the column the boundary features are keyed by (featureidkey).
C2_SameIdentifierScheme ==
    (Queried /\ Len(returned) = 3) =>
        /\ returned[1].kind = "Choropleth" =>
              "properties." \o returned[1].locations = returned[1].featureidkey
        /\ \A k \in {2, 3} : returned[k].kind = "Bar" =>
              "properties." \o returned[k].x = featureidkey

\* C3: a non-empty indicator name that is not a column of the table gets the
\* NotFound figure, with no data, as each of the three returned outputs.
C3_NotFound ==
    (Queried /\ called.arg # "" /\ called.arg \notin columns(merged_nc)) =>
        /\ Len(returned) = 3
        /\ \A k \in 1..3 : returned[k].kind = "NotFound" /\ returned[k].data = <<>>

C3_Witness ==
    /\ Queried
    /\ called.arg = "Median Household Income"
    /\ merged_nc.n > 0
    /\ IndCol \in columns(merged_nc)
    /\ Len(returned) = 3
    /\ returned[1].kind = "NotFound"

HasNaN(col) == \E i \in 1..Len(col) : isnull(col[i])

\* C4: a query on an indicator whose every value is missing returns the
\* InsufficientData variant, and nothing handed to rendering holds a NaN.
C4_InsufficientData ==
    (Recognized /\ merged_nc.n > 0 /\ NonNull(Stored) = {}) =>
        /\ Len(returned) = 3
        /\ \A k \in 1..3 : returned[k].kind = "InsufficientData"
        /\ ~HasNaN(locals.merged_nc_clean.cols[called.arg])
        /\ ~HasNaN(locals.merged_nc_top.cols[called.arg])
        /\ ~HasNaN(locals.merged_nc_bottom.cols[called.arg])

\* the median, stated by counting: the mean of the lower and the upper
\* middle value of the non-missing values
Values(col) == {col[i].num : i \in NonNull(col)}
CountLE(col, x) == Cardinality({i \in NonNull(col) : col[i].num <= x})
CountGE(col, x) == Cardinality({i \in NonNull(col) : col[i].num >= x})
Half(col) == (Cardinality(NonNull(col)) + 1) \div 2
LowerMiddle(col) ==
    CHOOSE x \in Values(col) :
        /\ CountLE(col, x) >= Half(col)
        /\ \A y \in Values(col) : CountLE(col, y) >= Half(col) => x <= y
UpperMiddle(col) ==
    CHOOSE x \in Values(col) :
        /\ CountGE(col, x) >= Half(col)
        /\ \A y \in Values(col) : CountGE(col, y) >= Half(col) => x >= y
IsMedian(col, m) == 2 * m = LowerMiddle(col) + UpperMiddle(col)

\* C5: with at least one value present, the cleaned column has the stored
\* value where there is one and the median of the stored values elsewhere;
\* for [10, missing, 30] that is [10, 20, 30], whose 2 largest are [30, 20]
\* and 2 smallest [10, 20].
C5_MedianImputation ==
    (Recognized /\ NonNull(Stored) # {}) =>
        LET clean == locals.merged_nc_clean
            col == clean.cols[called.arg]
        IN /\ Len(col) = Len(Stored)
           /\ \A i \in 1..Len(col) :
                 IF isnull(Stored[i])
                 THEN col[i].kind = "num" /\ IsMedian(Stored, col[i].num)
                 ELSE col[i] = Stored[i]
           /\ Stored = <<Num(10), NaN, Num(30)>> =>
                 /\ col = <<Num(10), Num(20), Num(30)>>
                 /\ nlargest(2, clean, called.arg).cols[called.arg] = <<Num(30), Num(20)>>
                 /\ nsmallest(2, clean, called.arg).cols[called.arg] = <<Num(10), Num(20)>>

C5_Witness ==
    /\ Recognized
    /\ Stored = <<Num(10), NaN, Num(30)>>
    /\ locals.merged_nc_clean.cols[called.arg] = <<Num(10), Num(20), Num(30)>>
    /\ returned[2].kind = "Bar"

\* rows is the first min(N, row count) rows of clean in the asked order of
\* the column, rows of equal value in load order
IsRanked(rows, clean, column, descending, N) ==
    LET c == clean.cols[column]
        pos(k) == rows.index[k] + 1
        strictly(a, b) == IF descending THEN a.num > b.num ELSE a.num < b.num
        precedes(p, q) == strictly(c[p], c[q]) \/ (c[p].num = c[q].num /\ p < q)
    IN /\ rows.n = (IF N < clean.n THEN N ELSE clean.n)
       /\ columns(rows) = columns(clean)
       /\ \A k \in 1..rows.n :
             /\ pos(k) \in 1..clean.n
             /\ \A col \in columns(clean) : rows.cols[col][k] = clean.cols[col][pos(k)]
       /\ \A k, l \in 1..rows.n : k < l => precedes(pos(k), pos(l))
       /\ \A r \in 1..clean.n :
             (\A k \in 1..rows.n : pos(k) # r) =>
                 \A k \in 1..rows.n : precedes(pos(k), r)

\* C6: with at least one value present, the top set is the first
\* min(top_n, row count) rows of the cleaned table in descending order of the
\* indicator and the bottom set the first min(bottom_n, row count) in
\* ascending order, equal values in load order.
C6_Ranking ==
    (Recognized /\ NonNull(Stored) # {}) =>
        /\ IsRanked(locals.merged_nc_top, locals.merged_nc_clean, called.arg, TRUE, top_n)
        /\ IsRanked(locals.merged_nc_bottom, locals.merged_nc_clean, called.arg, FALSE, bottom_n)

C6_Witness ==
    /\ Recognized
    /\ merged_nc.n > top_n
    /\ locals.merged_nc_top.n = top_n
    /\ locals.merged_nc_bottom.n = bottom_n
    /\ locals.merged_nc_top.index # locals.merged_nc_bottom.index
    /\ \E i \in 1..merged_nc.n :
          /\ \A k \in 1..top_n : locals.merged_nc_top.index[k] # i - 1
          /\ Stored[i] = locals.merged_nc_top.cols[called.arg][top_n]

\* a <= b as floats: false when either is NaN
LE(a, b) == a.kind = "num" /\ b.kind = "num" /\ a.num <= b.num

\* C7: the colour range of every map lies around every value of the full
\* cleaned set: range_color[1] <= v <= range_color[2].
C7_RangeCoversFullSet ==
    (Queried /\ Len(returned) = 3 /\ returned[1].kind = "Choropleth") =>
        \A i \in 1..Len(returned[1].z) :
            /\ LE(returned[1].range_color[1], returned[1].z[i])
            /\ LE(returned[1].z[i], returned[1].range_color[2])

\* C8: no event changes the stored table, the boundary document or the
\* identifier key, and the same query asked again returns the same.
C8_EventsReadOnly ==
    [][Serving =>
          /\ merged_nc' = merged_nc
          /\ merged_geojson' = merged_geojson
          /\ featureidkey' = featureidkey
          /\ (called.fn = "update_visualizations" /\ called' = called) =>
                (returned' = returned /\ locals' = locals)]_vars

C8_Witness ==
    /\ Recognized
    /\ HasNaN(Stored)
    /\ NonNull(Stored) # {}
    /\ ~HasNaN(locals.merged_nc_clean.cols[called.arg])

\* C9: when the file is missing or unreadable the load ends with the empty
\* table and the empty boundary document, startup goes on to serving, and
\* every indicator query from then on returns a degraded figure.
C9_DegradedForever ==
    disk.status # "ok" =>
        /\ pc \in {"read", "check", "serving"}
        /\ merged_nc = EmptyFrame
        /\ merged_geojson = EmptyDict
        /\ (called.fn = "update_visualizations" /\ called.arg # "") =>
              /\ Len(returned) = 3
              /\ \A k \in 1..3 : returned[k].kind \in {"NotFound", "InsufficientData"}

C9_Witness ==
    /\ disk.status = "corrupt"
    /\ Queried
    /\ called.arg = IndCol
    /\ returned[1].kind = "NotFound"
    /\ empty(merged_nc)

\* C10: startup never ends in a crash, whichever load stage fails.
C10_NeverCrashes == pc # "crashed"

\* the file was read and has rows
Loaded == disk.status = "ok" /\ ~empty(disk.frame)

\* C11: a dataset without the County column fails the load phase: the
\* process goes on running, but it serves no table (the degraded empty
\* state), never that table under an identifier it does not have.
C11_SchemaErrorOnMissingKey ==
    (Loaded /\ "County" \notin columns(disk.frame) /\ pc \in {"coerce", "serving"}) =>
        /\ empty(merged_nc)
        /\ merged_geojson = EmptyDict

\* decimal text of a row index below 100
Digit == <<"0", "1", "2", "3", "4", "5", "6", "7", "8", "9">>
DecimalText(k) ==
    IF k < 10 THEN Digit[k + 1] ELSE Digit[(k \div 10) + 1] \o Digit[(k % 10) + 1]

\* the text of a County cell; a missing County reads "None"
CountyText(c) == IF c.kind = "str" THEN c.str ELSE "None"

\* the distinct County values of the file; a missing County is not a value
DistinctCounties(col) == {col[i].str : i \in {j \in 1..Len(col) : col[j].kind = "str"}}

\* C12: when the file has as many distinct County values as rows, the
\* identifier is the County column as loaded; otherwise the identifier of the
\* row at 0-based position k is County + "_" + k, so "Wake" at rows 0 and 3
\* gives "Wake_0" and "Wake_3".
C12_ResolvedIdentifier ==
    (Loaded /\ "County" \in columns(disk.frame) /\ pc \in {"coerce", "serving"}) =>
        LET natural == disk.frame.cols["County"]
        IN /\ merged_nc.n = Len(natural)
           /\ IF Cardinality(DistinctCounties(natural)) = Len(natural)
              THEN /\ IdColumn = "County"
                   /\ merged_nc.cols[IdColumn] = natural
              ELSE /\ IdColumn = "County_ID"
                   /\ "County_ID" \in columns(merged_nc)
                   /\ \A i \in 1..Len(natural) :
                         merged_nc.cols["County_ID"][i] =
                             Str(CountyText(natural[i]) \o "_" \o DecimalText(i - 1))

C12_Witness ==
    /\ Serving
    /\ Loaded
    /\ "County" \in columns(disk.frame)
    /\ disk.frame.n = 4
    /\ disk.frame.cols["County"][1] = Str("Wake")
    /\ disk.frame.cols["County"][4] = Str("Wake")
    /\ merged_nc.cols["County_ID"][1] = Str("Wake_0")
    /\ merged_nc.cols["County_ID"][4] = Str("Wake_3")
    /\ ~HasDuplicates(merged_nc.cols["County_ID"])

\* the figure of output k is built from the rows of the query
BuiltFromQuery(k) ==
    CASE k = 1 -> /\ returned[1].kind = "Choropleth"
                  /\ returned[1].z = locals.merged_nc_clean.cols[called.arg]
      [] k = 2 -> /\ returned[2].kind = "Bar"
                  /\ returned[2].y = locals.merged_nc_top.cols[called.arg]
      [] OTHER -> /\ returned[3].kind = "Bar"
                  /\ returned[3].y = locals.merged_nc_bottom.cols[called.arg]

OutputName == <<"map", "top", "bottom">>
ErrorKind == <<"MapError", "TopError", "BottomError">>

\* C13: for an indicator that is a column, the callback returns three
\* figures; an output whose build raised is that output's own error figure,
\* and every other output is still built from the query's rows.
C13_IndependentFailures ==
    Recognized =>
        /\ Len(returned) = 3
        /\ \A k \in 1..3 :
              /\ returned[k].kind \in {"Choropleth", "Bar", ErrorKind[k]}
              /\ OutputName[k] \in called.fails =>
                    (returned[k].kind = ErrorKind[k] /\ returned[k].data = <<>>)
              /\ (OutputName[k] \notin called.fails /\ "County" \in columns(merged_nc)) =>
                    BuiltFromQuery(k)

C13_Witness ==
    /\ Recognized
    /\ called.fails = {"top"}
    /\ merged_nc.n > 1
    /\ returned[1].kind = "Choropleth"
    /\ returned[2].kind = "TopError"
    /\ returned[3].kind = "Bar"
    /\ returned[3].y = locals.merged_nc_bottom.cols[called.arg]
====
